---- MODULE Spec2Model ----
(***************************************************************************)
(* Botbase backend: the RAG ingestion pipeline (processDocument driven by  *)
(* the Bull document-processing worker), the pgvector similarity search,   *)
(* and the chat turn with its usage metering.                              *)
(*                                                                         *)
(* Text is a sequence of one-character strings.  Tables are sequences of   *)
(* rows; a row's serial id is its position in the sequence.                *)
(***************************************************************************)
EXTENDS Integers, Sequences, FiniteSets, TLC

\* ------------------------------------------------------------------ bounds

\* Jobs that may ever be added to the queue (every upload adds one).
MaxJobs == 2
\* processDocument runs that may ever be started (first attempts and retries).
MaxRuns == 3

\* Tenants.
Projects == {1, 2}

\* ---------------------------------------------------------- configuration

\* rag.ts CHUNK_SIZE (env CHUNK_SIZE, default 1000), here 4 characters so that
\* a two-sentence document of five characters is split into two chunks.
CHUNK_SIZE == 4
\* rag.ts CHUNK_OVERLAP (env CHUNK_OVERLAP, default 200), here 2 characters, so
\* that the chunk sizes 1..CHUNK_SIZE lie below, at and above it.
CHUNK_OVERLAP == 2
\* rag.ts VECTOR_SEARCH_TOP_K, VECTOR_SIMILARITY_THRESHOLD (x100), MAX_CONTEXT_TOKENS
VECTOR_SEARCH_TOP_K == 5
VECTOR_SIMILARITY_THRESHOLD == 70
MAX_CONTEXT_TOKENS == 2000
EMBEDDING_MODEL == "text-embedding-3-small"
\* documentProcessor.ts: documentProcessingQueue.process(2, ...), attempts: 3
WorkerConcurrency == 2
JobAttempts == 3
\* billing.ts free-plan limits (env FREE_PLAN_MESSAGES_MINI, default 1000;
\* FREE_PLAN_MESSAGES_PREMIUM, default 100; FREE_PLAN_INDEXED_PAGES, default
\* 100), here with one message per model a month so that few turns reach them.
FREE_PLAN_MESSAGES_MINI == 1
FREE_PLAN_MESSAGES_PREMIUM == 1
FREE_PLAN_INDEXED_PAGES == 100

\* Chat turns (sendMessage calls) that may ever be made.
MaxTurns == 2

\* Document contents that are uploaded (uploadDocumentSchema: at least one
\* character): only whitespace, and two sentences that do not fit one chunk
\* together.
BlankContent == <<" ">>
TwoSentences == <<"a", ".", " ", "b", ".">>
Contents == {BlankContent, TwoSentences}

\* Chat queries, and the messages sent in chat turns (chatRequestSchema: at
\* least one character): a question, the question behind a ${...} region, and
\* only whitespace.
Queries == {<<"a", "?">>, <<"b", "?">>}
InterpolatedQuestion == <<"$", "{", "}", "a", "?">>
ChatMessages == {<<"a", "?">>, InterpolatedQuestion, BlankContent}
Models == {"mini", "premium"}
\* The projects chatted with, and the conversationId of a request: 0 for
\* none, or conversation 1, which exists once some turn has created it.
ChatProjects == {1, 2}
ConversationIds == {0, 1}

\* ------------------------------------------------------------ text helpers

IsWhitespace(c) == c \in {" ", "\n", "\t"}
IsTerminator(c) == c \in {".", "!", "?"}

RECURSIVE TrimLeft(_)
TrimLeft(s) ==
  IF s # << >> /\ IsWhitespace(Head(s)) THEN TrimLeft(Tail(s)) ELSE s

RECURSIVE TrimRight(_)
TrimRight(s) ==
  IF s # << >> /\ IsWhitespace(s[Len(s)])
    THEN TrimRight(SubSeq(s, 1, Len(s) - 1))
    ELSE s

\* String.prototype.trim
Trim(s) == TrimRight(TrimLeft(s))

\* content.split(/(?<=[.!?])\s+/): a separator is a maximal run of whitespace
\* that directly follows a terminator.  i is the next position to read, cur
\* the piece being collected, acc the finished pieces.
RECURSIVE SplitFrom(_, _, _, _)
SplitFrom(s, i, cur, acc) ==
  IF i > Len(s) THEN Append(acc, cur)
  ELSE IF IsWhitespace(s[i]) /\ i > 1 /\ IsTerminator(s[i - 1])
    THEN LET RECURSIVE SkipWs(_)
             SkipWs(k) == IF k <= Len(s) /\ IsWhitespace(s[k]) THEN SkipWs(k + 1) ELSE k
         IN  SplitFrom(s, SkipWs(i), << >>, Append(acc, cur))
    ELSE SplitFrom(s, i + 1, Append(cur, s[i]), acc)

\* sentences.filter((s) => s.trim().length > 0)
splitBySentences(content) ==
  SelectSeq(SplitFrom(content, 1, << >>, << >>), LAMBDA x : Len(Trim(x)) > 0)

\* The greedy loop of intelligentChunk over the sentences from position i on.
RECURSIVE ChunkLoop(_, _, _, _, _)
ChunkLoop(sentences, i, currentChunk, chunks, targetChunkSize) ==
  IF i > Len(sentences)
    THEN IF currentChunk # << >> THEN Append(chunks, currentChunk) ELSE chunks
    ELSE LET sentence == sentences[i]
             testChunk == IF currentChunk # << >>
                            THEN currentChunk \o <<" ">> \o sentence
                            ELSE sentence
         IN  IF Len(testChunk) <= targetChunkSize
               THEN ChunkLoop(sentences, i + 1, testChunk, chunks, targetChunkSize)
               ELSE ChunkLoop(sentences, i + 1, sentence,
                              IF currentChunk # << >> THEN Append(chunks, currentChunk)
                                                      ELSE chunks,
                              targetChunkSize)

\* As intelligentChunk, without the push of the last buffer after the loop.
intelligentChunkNoFlush(content, targetChunkSize) ==
  LET chunks == ChunkLoop(splitBySentences(content), 1, << >>, << >>, targetChunkSize)
  IN  SubSeq(chunks, 1, Len(chunks) - 1)

intelligentChunk(content, targetChunkSize) ==
  ChunkLoop(splitBySentences(content), 1, << >>, << >>, targetChunkSize)

\* Math.ceil(text.length / 4)
estimateTokens(text) == (Len(text) + 3) \div 4

\* --------------------------------------------------------------- provider

\* The embedding provider and pgvector's cosine distance are outside the
\* repository.  A vector is abstracted as a direction 0..3 fixed by the text
\* (its first letter), and 1 - cosineDistance (x100) as a table on the angle
\* between two directions.
Direction(text) ==
  LET t == Trim(text)
  IN  IF t = << >> THEN 0
      ELSE CASE t[1] = "a" -> 0
             [] t[1] = "b" -> 1
             [] t[1] = "c" -> 2
             [] OTHER      -> 3

EmbeddingOf(text) == Direction(text)

Similarity(v, w) ==
  LET d == IF v >= w THEN v - w ELSE w - v
  IN  CASE d = 0 -> 100
        [] d = 1 -> 70
        [] d = 2 -> 0
        [] OTHER -> -70

\* ------------------------------------------------------------------ state

VARIABLES
  documents,        \* table documents: projectId, content, status, errorMessage
  documentChunks,   \* table document_chunks: documentId, projectId, content, chunkIndex
  embeddings,       \* table embeddings: chunkId, documentId, projectId, vector, model
  jobs,             \* Bull queue 'document-processing': one record per job
  usageTracking,    \* table usage_tracking: userId, projectId, month, counters
  billingEvents,    \* table billing_events
  conversations,    \* table conversations: projectId
  messages,         \* table messages
  turns,            \* the sendMessage calls made so far, each with its position
  storageFaults,    \* whether the database may fail a call in this behaviour
  embedCall,        \* one call of generateEmbeddingsBatch and its provider requests
  chunkCall,        \* one call of chunkDocument
  textCall,         \* one call of a pure function: its input and what it returned
  refreshTokens,    \* table refresh_tokens: userId, revoked, expired
  refreshCalls,     \* the refreshAccessToken calls made so far, each with its position
  domainCrawlCounts, \* the map of canCrawlDomain: per domain, count and resetAt
  crawlWindows,     \* per domain, the calls that returned true since its window opened
  now               \* Date.now(), in milliseconds

ingestVars == <<documents, documentChunks, embeddings, jobs>>
chatVars == <<usageTracking, billingEvents, conversations, messages, turns>>
\* The calls of single functions followed on their own.
callVars == <<embedCall, chunkCall, textCall>>
authVars == <<refreshTokens, refreshCalls>>
crawlVars == <<domainCrawlCounts, crawlWindows, now>>
vars == <<documents, documentChunks, embeddings, jobs, usageTracking, billingEvents,
          conversations, messages, turns, storageFaults, callVars, authVars, crawlVars>>

\* The outcomes of one database call: it succeeds, or (when faults occur) fails.
DbOutcomes == IF storageFaults THEN BOOLEAN ELSE {TRUE}

\* Error messages raised along the pipeline.
ErrDatabase == "Database not available"
ErrNoChunks == "No chunks generated from document"
ErrMismatch == "Embedding count mismatch with chunk count"
ErrProvider == "Provider request failed"

\* ------------------------------------------------------------ db layer

\* db.updateDocument(id, updates): UPDATE ... WHERE id = id
updateDocument(docs, id, status, errorMessage) ==
  [docs EXCEPT ![id] = [@ EXCEPT !.status = status, !.errorMessage = errorMessage]]

\* db.createDocumentChunkBatch(chunks): INSERT only, returning the new rows
createDocumentChunkBatch(table, rows) == table \o rows

\* db.createEmbeddingBatch(list): INSERT only
createEmbeddingBatch(table, rows) == table \o rows

\* As SearchEligible, without the project scope.
SearchEligibleAnyProject(projectId, vector, threshold) ==
  {e \in DOMAIN embeddings : Similarity(embeddings[e].vector, vector) > threshold}

\* The WHERE clause of db.vectorSearch: the embedding's project and the threshold.
SearchEligible(projectId, vector, threshold) ==
  {e \in DOMAIN embeddings :
     /\ embeddings[e].projectId = projectId
     /\ Similarity(embeddings[e].vector, vector) > threshold}

\* ORDER BY similarity DESC LIMIT n over the set S of embedding ids: every
\* list the query can return (SQL leaves the order of equal similarities open).
RECURSIVE Ranked(_, _, _)
Ranked(S, vector, n) ==
  IF n = 0 \/ S = {} THEN {<< >>}
  ELSE UNION {{<<e>> \o r : r \in Ranked(S \ {e}, vector, n - 1)} :
                e \in {x \in S : \A y \in S : Similarity(embeddings[y].vector, vector)
                                                 <= Similarity(embeddings[x].vector, vector)}}

\* db.vectorSearch(projectId, vector, limit, threshold): lists of embedding ids.
dbVectorSearch(projectId, vector, limit, threshold) ==
  Ranked(SearchEligible(projectId, vector, threshold), vector, limit)

\* The joined row db.vectorSearch returns for embedding e.
SearchRow(e, vector) ==
  [id         |-> e,
   chunkId    |-> embeddings[e].chunkId,
   documentId |-> embeddings[e].documentId,
   content    |-> documentChunks[embeddings[e].chunkId].content,
   similarity |-> Similarity(embeddings[e].vector, vector)]

\* rag.vectorSearch(projectId, query) with the default limit and threshold and
\* a provider that answers: the result lists it can return (a blank query
\* yields the empty list).
vectorSearch(projectId, query) ==
  IF Len(Trim(query)) = 0 THEN {<< >>}
  ELSE {[i \in 1..Len(r) |-> SearchRow(r[i], EmbeddingOf(query))] :
          r \in dbVectorSearch(projectId, EmbeddingOf(query),
                               VECTOR_SEARCH_TOP_K, VECTOR_SIMILARITY_THRESHOLD)}

\* As ContextLoop, going on to the next chunk where the code breaks.
RECURSIVE ContextLoopSkipping(_, _, _, _, _)
ContextLoopSkipping(chunks, i, selectedChunks, totalTokens, maxTokens) ==
  IF i > Len(chunks) THEN [chunks |-> selectedChunks, totalTokens |-> totalTokens]
  ELSE LET chunkTokens == estimateTokens(chunks[i].content)
       IN  IF totalTokens + chunkTokens <= maxTokens
             THEN ContextLoopSkipping(chunks, i + 1, Append(selectedChunks, chunks[i]),
                                      totalTokens + chunkTokens, maxTokens)
             ELSE ContextLoopSkipping(chunks, i + 1, selectedChunks, totalTokens, maxTokens)

\* The loop of buildRAGContext from position i on.
RECURSIVE ContextLoop(_, _, _, _, _)
ContextLoop(chunks, i, selectedChunks, totalTokens, maxTokens) ==
  IF i > Len(chunks) THEN [chunks |-> selectedChunks, totalTokens |-> totalTokens]
  ELSE LET chunkTokens == estimateTokens(chunks[i].content)
       IN  IF totalTokens + chunkTokens <= maxTokens
             THEN ContextLoop(chunks, i + 1, Append(selectedChunks, chunks[i]),
                              totalTokens + chunkTokens, maxTokens)
             ELSE [chunks |-> selectedChunks, totalTokens |-> totalTokens]

buildRAGContext(chunks, maxTokens) == ContextLoop(chunks, 1, << >>, 0, maxTokens)

\* ------------------------------------------------------------- job queue

\* queue.add(data, {attempts: 3, ...}): a waiting job that has made no attempt.
NewJob(documentId, projectId, content) ==
  [documentId |-> documentId, projectId |-> projectId, content |-> content,
   state |-> "waiting", attemptsMade |-> 0, pc |-> "idle",
   chunks |-> << >>, createdChunks |-> << >>, vectors |-> << >>,
   error |-> "", failedReason |-> ""]

\* The DocumentProcessingJob of a stored document.
JobOf(d) == NewJob(d, documents[d].projectId, documents[d].content)

ActiveJobs == {j \in DOMAIN jobs : jobs[j].state = "active"}

RECURSIVE SumAttempts(_)
SumAttempts(i) == IF i = 0 THEN 0 ELSE jobs[i].attemptsMade + SumAttempts(i - 1)

\* Runs started so far: the attempts that ended plus the runs under way.
RunsStarted == SumAttempts(Len(jobs)) + Cardinality(ActiveJobs)

\* documents router upload: createDocument(status 'pending'), then
\* queueDocumentProcessing(document.id, projectId, content, title).
Upload(p, c) ==
  /\ Len(jobs) < MaxJobs
  /\ documents' = Append(documents,
       [projectId |-> p, content |-> c, status |-> "pending", errorMessage |-> ""])
  /\ jobs' = Append(jobs, NewJob(Len(documents) + 1, p, c))
  /\ UNCHANGED <<documentChunks, embeddings, chatVars, storageFaults, callVars,
                 authVars, crawlVars>>

\* queueDocumentsInBatch(documents): addBulk of one job per listed document;
\* the list is any non-empty list of stored documents, repeats included.
queueDocumentsInBatch(ds) ==
  /\ Len(ds) >= 1
  /\ Len(jobs) + Len(ds) <= MaxJobs
  /\ jobs' = jobs \o [i \in 1..Len(ds) |-> JobOf(ds[i])]
  /\ UNCHANGED <<documents, documentChunks, embeddings, chatVars, storageFaults, callVars,
                 authVars, crawlVars>>

\* The worker takes a waiting job when fewer than 2 jobs are active.
WorkerStart(j) ==
  /\ jobs[j].state = "waiting"
  /\ Cardinality(ActiveJobs) < WorkerConcurrency
  /\ RunsStarted < MaxRuns
  /\ jobs' = [jobs EXCEPT ![j] = [@ EXCEPT !.state = "active", !.pc = "markProcessing"]]
  /\ UNCHANGED <<documents, documentChunks, embeddings, chatVars, storageFaults, callVars,
                 authVars, crawlVars>>

\* The run of job j throws e inside the try block: control goes to the catch.
Throw(j, e) == [jobs EXCEPT ![j] = [@ EXCEPT !.pc = "catch", !.error = e]]

Goto(j, pc) == [jobs EXCEPT ![j] = [@ EXCEPT !.pc = pc]]

\* await db.updateDocument(documentId, {status: 'processing'})
MarkProcessing(j) ==
  /\ jobs[j].state = "active" /\ jobs[j].pc = "markProcessing"
  /\ \E dbOk \in DbOutcomes :
       IF dbOk
         THEN /\ documents' = updateDocument(documents, jobs[j].documentId, "processing",
                                             documents[jobs[j].documentId].errorMessage)
              /\ jobs' = Goto(j, "createChunks")
         ELSE /\ documents' = documents
              /\ jobs' = Throw(j, ErrDatabase)
  /\ UNCHANGED <<documentChunks, embeddings, chatVars, storageFaults, callVars,
                 authVars, crawlVars>>

\* const chunks = intelligentChunk(content); zero chunks throws; then
\* await db.createDocumentChunkBatch(chunks.map(...)) with chunkIndex = index.
CreateChunks(j) ==
  /\ jobs[j].state = "active" /\ jobs[j].pc = "createChunks"
  /\ LET chunks == intelligentChunk(jobs[j].content, CHUNK_SIZE)
         rows == [i \in 1..Len(chunks) |->
                    [documentId |-> jobs[j].documentId, projectId |-> jobs[j].projectId,
                     content |-> chunks[i], chunkIndex |-> i - 1,
                     tokenCount |-> estimateTokens(chunks[i])]]
     IN  IF Len(chunks) = 0
           THEN /\ jobs' = Throw(j, ErrNoChunks)
                /\ documentChunks' = documentChunks
           ELSE \E dbOk \in DbOutcomes :
                  IF dbOk
                    THEN /\ documentChunks' = createDocumentChunkBatch(documentChunks, rows)
                         /\ jobs' = [jobs EXCEPT ![j] =
                              [@ EXCEPT !.pc = "embed", !.chunks = chunks,
                                        !.createdChunks =
                                           [i \in 1..Len(chunks) |-> Len(documentChunks) + i]]]
                    ELSE /\ documentChunks' = documentChunks
                         /\ jobs' = Throw(j, ErrDatabase)
  /\ UNCHANGED <<documents, embeddings, chatVars, storageFaults, callVars,
                 authVars, crawlVars>>

\* generateEmbeddingsBatch(chunks) when every provider request answers: one
\* vector per text, in input order.
generateEmbeddingsBatch(chunks) == [i \in 1..Len(chunks) |-> EmbeddingOf(chunks[i])]

\* const embeddings = await generateEmbeddingsBatch(chunks); a failing provider
\* request makes the whole call throw.
Embed(j) ==
  /\ jobs[j].state = "active" /\ jobs[j].pc = "embed"
  /\ \E outcome \in {"ok", ErrProvider} :
       IF outcome = "ok"
         THEN jobs' = [jobs EXCEPT ![j] =
                [@ EXCEPT !.pc = "storeEmbeddings",
                          !.vectors = generateEmbeddingsBatch(jobs[j].chunks)]]
         ELSE jobs' = Throw(j, outcome)
  /\ UNCHANGED <<documents, documentChunks, embeddings, chatVars, storageFaults, callVars,
                 authVars, crawlVars>>

\* The rows processDocument hands to createEmbeddingBatch: vector index goes
\* with createdChunks[index].id.
EmbeddingRows(j) ==
  [i \in 1..Len(jobs[j].vectors) |->
     [chunkId |-> jobs[j].createdChunks[i], documentId |-> jobs[j].documentId,
      projectId |-> jobs[j].projectId, vector |-> jobs[j].vectors[i],
      model |-> EMBEDDING_MODEL]]

\* if (embeddings.length !== createdChunks.length) throw ...;
\* await db.createEmbeddingBatch(...)
StoreEmbeddings(j) ==
  /\ jobs[j].state = "active" /\ jobs[j].pc = "storeEmbeddings"
  /\ IF Len(jobs[j].vectors) # Len(jobs[j].createdChunks)
       THEN /\ jobs' = Throw(j, ErrMismatch)
            /\ embeddings' = embeddings
       ELSE \E dbOk \in DbOutcomes :
              IF dbOk
                THEN /\ embeddings' = createEmbeddingBatch(embeddings, EmbeddingRows(j))
                     /\ jobs' = Goto(j, "markCompleted")
                ELSE /\ embeddings' = embeddings
                     /\ jobs' = Throw(j, ErrDatabase)
  /\ UNCHANGED <<documents, documentChunks, chatVars, storageFaults, callVars,
                 authVars, crawlVars>>

\* The processor function returned: removeOnComplete.
JobCompleted(j) ==
  [jobs EXCEPT ![j] = [@ EXCEPT !.state = "completed", !.pc = "idle", !.chunks = << >>,
                                !.createdChunks = << >>, !.vectors = << >>, !.error = ""]]

\* The processor function threw e: Bull counts the attempt and, while
\* attemptsMade < attempts, puts the job back (after the backoff delay).
JobFailed(j, e) ==
  [jobs EXCEPT ![j] =
     [@ EXCEPT !.state = IF jobs[j].attemptsMade + 1 < JobAttempts THEN "waiting" ELSE "failed",
               !.attemptsMade = @ + 1, !.pc = "idle", !.chunks = << >>,
               !.createdChunks = << >>, !.vectors = << >>, !.error = "",
               !.failedReason = e]]

\* await db.updateDocument(documentId, {status: 'completed'}); return
MarkCompleted(j) ==
  /\ jobs[j].state = "active" /\ jobs[j].pc = "markCompleted"
  /\ \E dbOk \in DbOutcomes :
       IF dbOk
         THEN /\ documents' = updateDocument(documents, jobs[j].documentId, "completed",
                                             documents[jobs[j].documentId].errorMessage)
              /\ jobs' = JobCompleted(j)
         ELSE /\ documents' = documents
              /\ jobs' = Throw(j, ErrDatabase)
  /\ UNCHANGED <<documentChunks, embeddings, chatVars, storageFaults, callVars,
                 authVars, crawlVars>>

\* catch (error): await db.updateDocument(documentId, {status: 'failed',
\* errorMessage: error.message}); throw error.  When that update itself throws,
\* its error leaves processDocument instead.
Catch(j) ==
  /\ jobs[j].state = "active" /\ jobs[j].pc = "catch"
  /\ \E dbOk \in DbOutcomes :
       IF dbOk
         THEN /\ documents' = updateDocument(documents, jobs[j].documentId, "failed",
                                             jobs[j].error)
              /\ jobs' = JobFailed(j, jobs[j].error)
         ELSE /\ documents' = documents
              /\ jobs' = JobFailed(j, ErrDatabase)
  /\ UNCHANGED <<documentChunks, embeddings, chatVars, storageFaults, callVars,
                 authVars, crawlVars>>

\* --------------------------------------------- generateEmbeddingsBatch call

\* const batchSize = 10
batchSize == 10

\* Texts handed to one call: at most this many.
MaxTexts == 11

ErrEmptyText == "Text cannot be empty"

\* The k-th text of an input list: the letters a, b, c, d in turn, so that
\* neighbouring texts have different embeddings.
CycleText(k) ==
  CASE k % 4 = 1 -> <<"a">>
    [] k % 4 = 2 -> <<"b">>
    [] k % 4 = 3 -> <<"c">>
    [] OTHER     -> <<"d">>

\* The input lists: every length up to MaxTexts, and one with a blank text.
EmbedInputs ==
  {[k \in 1..n |-> CycleText(k)] : n \in 0..MaxTexts} \cup {<< <<"a">>, <<" ">> >>}

\* No call made yet.
NoEmbedCall ==
  [pc |-> "idle", chunks |-> << >>, i |-> 0, inFlight |-> {}, fulfilled |-> {},
   rejected |-> {}, embeddings |-> << >>, result |-> << >>, error |-> ""]

\* As BatchEnd, without the partition: the whole rest in one sub-batch.
BatchEndAll(call) == Len(call.chunks)

\* chunks.slice(i, i + batchSize): the sub-batch is chunks[i+1 .. BatchEnd].
BatchEnd(call) ==
  IF call.i + batchSize < Len(call.chunks) THEN call.i + batchSize ELSE Len(call.chunks)

\* generateEmbedding(text) up to its request: a blank text throws at once.
IsBlank(text) == Len(Trim(text)) = 0

\* batch.map((chunk) => generateEmbedding(chunk)) for the sub-batch at call.i:
\* every text that is not blank becomes a provider request in flight; a blank
\* text is a rejected promise, so Promise.all rejects and the catch re-throws.
IssueBatch(call) ==
  LET idx == (call.i + 1)..BatchEnd(call)
      blank == {k \in idx : IsBlank(call.chunks[k])}
  IN  [call EXCEPT !.inFlight = @ \cup (idx \ blank),
                   !.rejected = @ \cup blank,
                   !.pc = IF blank # {} THEN "thrown" ELSE "await",
                   !.error = IF blank # {} THEN ErrEmptyText ELSE call.error]

\* The loop head: for (let i = 0; i < chunks.length; i += batchSize), and
\* return embeddings after the loop.
LoopHead(call) ==
  IF call.i < Len(call.chunks)
    THEN IssueBatch(call)
    ELSE [call EXCEPT !.pc = "returned", !.result = call.embeddings]

\* As PushResults, with the sub-batch put in front of the earlier results.
PrependResults(acc, batchEmbeddings) == batchEmbeddings \o acc

\* embeddings.push(...batchEmbeddings)
PushResults(acc, batchEmbeddings) == acc \o batchEmbeddings

\* The value of await Promise.all(...): the vectors in the order of the
\* sub-batch's texts, whatever the order in which the requests completed.
BatchEmbeddings(call) ==
  [k \in 1..(BatchEnd(call) - call.i) |-> EmbeddingOf(call.chunks[call.i + k])]

\* Promise.all resolved: push the vectors, i += batchSize, go round the loop.
BatchResolved(call) ==
  LoopHead([call EXCEPT !.embeddings = PushResults(call.embeddings, BatchEmbeddings(call)),
                        !.i = call.i + batchSize])

\* As RequestRejected, with the failed text left out and the call going on.
RequestSkipped(call, k) ==
  LET c == [call EXCEPT !.inFlight = @ \ {k}]
  IN  IF c.pc = "await" /\ c.inFlight = {} THEN BatchResolved(c) ELSE c

\* The request of text k failed: generateEmbedding re-throws, Promise.all
\* rejects with that error, the catch of generateEmbeddingsBatch re-throws it.
\* A rejection that arrives after the call has thrown changes nothing more.
RequestRejected(call, k) ==
  [call EXCEPT !.inFlight = @ \ {k},
               !.pc = IF call.pc = "await" THEN "thrown" ELSE call.pc,
               !.error = IF call.pc = "await" THEN ErrProvider ELSE call.error]

\* The request of text k answered with a vector; the last answer of the
\* sub-batch resolves Promise.all.
RequestFulfilled(call, k) ==
  LET c == [call EXCEPT !.inFlight = @ \ {k}, !.fulfilled = @ \cup {k}]
  IN  IF c.pc = "await" /\ c.inFlight = {} THEN BatchResolved(c) ELSE c

\* generateEmbeddingsBatch(chunks), up to its first await.
BatchCall(chunks) ==
  /\ embedCall.pc = "idle"
  /\ embedCall' = LoopHead([NoEmbedCall EXCEPT !.chunks = chunks, !.pc = "loop"])
  /\ UNCHANGED <<ingestVars, chatVars, storageFaults, chunkCall, textCall,
                 authVars, crawlVars>>

\* The provider answers the request of text k, with a vector or an error
\* (rejected collects the texts whose request failed).
ProviderAnswers(k) ==
  /\ k \in embedCall.inFlight
  /\ \E ok \in BOOLEAN :
       embedCall' = IF ok THEN RequestFulfilled(embedCall, k)
                          ELSE RequestRejected([embedCall EXCEPT !.rejected = @ \cup {k}], k)
  /\ UNCHANGED <<ingestVars, chatVars, storageFaults, chunkCall, textCall,
                 authVars, crawlVars>>

\* ------------------------------------------------------ chunkDocument call

\* Texts handed to chunkDocument: every text of at most MaxContentLength
\* characters over a letter, another letter and the space.
MaxContentLength == 4
\* Overlaps handed to chunkDocument: 0..MaxOverlap; chunk sizes: 1..CHUNK_SIZE.
MaxOverlap == 3
\* Chunks a call may collect before it is followed no further.
MaxChunks == 6

ChunkTexts == UNION {[1..k -> {"a", "b", " "}] : k \in 0..MaxContentLength}

\* No call made yet.
NoChunkCall ==
  [pc |-> "idle", content |-> << >>, chunkSize |-> 0, overlap |-> 0, start |-> 0,
   chunks |-> << >>, result |-> << >>]

\* return chunks.length > 0 ? chunks : [content]
ChunkReturn(call) ==
  [call EXCEPT !.pc = "returned",
               !.result = IF Len(call.chunks) > 0 THEN call.chunks ELSE <<call.content>>]

\* chunkDocument(content, chunkSize, overlap) up to the loop: an empty text
\* returns [] at once.
ChunkCall(content, chunkSize, overlap) ==
  /\ chunkCall.pc = "idle"
  /\ chunkCall' =
       IF Len(content) = 0
         THEN [NoChunkCall EXCEPT !.pc = "returned", !.chunkSize = chunkSize,
                                  !.overlap = overlap]
         ELSE [NoChunkCall EXCEPT !.pc = "loop", !.content = content,
                                  !.chunkSize = chunkSize, !.overlap = overlap]
  /\ UNCHANGED <<ingestVars, chatVars, storageFaults, embedCall, textCall,
                 authVars, crawlVars>>

\* One pass of while (start < content.length): the window [start, end), its
\* trimmed text pushed when not empty, start = end - overlap, break when that
\* is negative; then the loop condition, and the return when the loop is left.
ChunkStep ==
  /\ chunkCall.pc = "loop"
  /\ Len(chunkCall.chunks) < MaxChunks
  /\ LET content == chunkCall.content
         end == IF chunkCall.start + chunkCall.chunkSize < Len(content)
                  THEN chunkCall.start + chunkCall.chunkSize ELSE Len(content)
         chunk == Trim(SubSeq(content, chunkCall.start + 1, end))
         pushed == IF Len(chunk) > 0 THEN Append(chunkCall.chunks, chunk)
                                     ELSE chunkCall.chunks
         start == end - chunkCall.overlap
         next == [chunkCall EXCEPT !.chunks = pushed, !.start = start]
     IN  chunkCall' = IF start < 0 \/ ~(start < Len(content))
                        THEN ChunkReturn(next)
                        ELSE next
  /\ UNCHANGED <<ingestVars, chatVars, storageFaults, embedCall, textCall,
                 authVars, crawlVars>>

\* ------------------------------------------------------- sanitizeUserInput

\* Whether the characters of pattern stand in s from position i on.
StartsAt(s, i, pattern) ==
  /\ i + Len(pattern) - 1 <= Len(s)
  /\ \A k \in 1..Len(pattern) : s[i + k - 1] = pattern[k]

\* String.prototype.replace(/open[\s\S]*?close/g, ''): scanning from the left,
\* a region that begins with open at position i and ends with the first close
\* behind it is dropped and the scan goes on behind the region; the text that
\* remains is not scanned again.
RECURSIVE RemoveRegions(_, _, _, _, _)
RemoveRegions(s, i, acc, open, close) ==
  IF i > Len(s) THEN acc
  ELSE LET ends == {q \in (i + Len(open))..Len(s) : StartsAt(s, q, close)}
       IN  IF StartsAt(s, i, open) /\ ends # {}
             THEN LET q == CHOOSE x \in ends : \A y \in ends : x <= y
                  IN  RemoveRegions(s, q + Len(close), acc, open, close)
             ELSE RemoveRegions(s, i + 1, Append(acc, s[i]), open, close)

\* The backtick, written as an apostrophe here.
Backtick == "'"
Fence == <<Backtick, Backtick, Backtick>>

\* if (sanitized.length > 5000) sanitized = sanitized.substring(0, 5000)
SanitizedMaxLength == 5000

\* sanitizeUserInput(input): fenced code blocks, {{...}} and ${...} replaced by
\* nothing, one replacement after the other, then trim, then the length cut.
sanitizeUserInput(input) ==
  LET noFences == RemoveRegions(input, 1, << >>, Fence, Fence)
      noBraces == RemoveRegions(noFences, 1, << >>, <<"{", "{">>, <<"}", "}">>)
      noInterpolation == RemoveRegions(noBraces, 1, << >>, <<"$", "{">>, <<"}">>)
      sanitized == Trim(noInterpolation)
  IN  IF Len(sanitized) > SanitizedMaxLength
        THEN SubSeq(sanitized, 1, SanitizedMaxLength) ELSE sanitized

\* ------------------------------------------------- calls of pure functions

\* Inputs of sanitizeUserInput: every text of at most MaxInputLength
\* characters over the characters of the three patterns and a letter, and
\* every text of at most MaxSpacedLength characters over these and the space.
MaxInputLength == 6
MaxSpacedLength == 4
\* Inputs of intelligentChunk: every text of at most MaxSentenceText characters
\* over a letter, the full stop and the space; target sizes 1..CHUNK_SIZE.
MaxSentenceText == 6

\* The texts of at most n characters of the alphabet.
TextsOver(alphabet, n) == UNION {[1..k -> alphabet] : k \in 0..n}

SanitizerInputs ==
  TextsOver({Backtick, "{", "}", "$", "a"}, MaxInputLength)
    \cup TextsOver({Backtick, "{", "}", "$", "a", " "}, MaxSpacedLength)
SentenceTexts == TextsOver({"a", ".", " "}, MaxSentenceText)

\* No call made yet.
NoTextCall == [fn |-> "none", input |-> << >>, size |-> 0, output |-> << >>]

\* A call of sanitizeUserInput(input) and the text it returns.
SanitizeCall(input) ==
  /\ textCall.fn = "none"
  /\ textCall' = [fn |-> "sanitizeUserInput", input |-> input, size |-> 0,
                  output |-> sanitizeUserInput(input)]
  /\ UNCHANGED <<ingestVars, chatVars, storageFaults, embedCall, chunkCall,
                 authVars, crawlVars>>

\* A call of intelligentChunk(content, targetChunkSize) and the chunks it returns.
IntelligentChunkCall(content, targetChunkSize) ==
  /\ textCall.fn = "none"
  /\ textCall' = [fn |-> "intelligentChunk", input |-> content, size |-> targetChunkSize,
                  output |-> intelligentChunk(content, targetChunkSize)]
  /\ UNCHANGED <<ingestVars, chatVars, storageFaults, embedCall, chunkCall,
                 authVars, crawlVars>>

\* Inputs of buildRAGContext: lists of at most MaxContextChunks search rows
\* whose contents are of 0, 1, 4, 5 and 9 characters (0, 1, 1, 2 and 3
\* tokens), and budgets 0..MaxTokenBudget.
MaxContextChunks == 4
MaxTokenBudget == 4
Letters(n) == [k \in 1..n |-> "a"]
ContextRows ==
  {[content |-> Letters(n), similarity |-> 100, documentId |-> 1] : n \in {0, 1, 4, 5, 9}}
ContextInputs == UNION {[1..k -> ContextRows] : k \in 0..MaxContextChunks}

\* A call of buildRAGContext(chunks, maxTokens) and the context it returns.
BuildContextCall(chunks, maxTokens) ==
  /\ textCall.fn = "none"
  /\ textCall' = [fn |-> "buildRAGContext", input |-> chunks, size |-> maxTokens,
                  output |-> buildRAGContext(chunks, maxTokens)]
  /\ UNCHANGED <<ingestVars, chatVars, storageFaults, embedCall, chunkCall,
                 authVars, crawlVars>>

\* ------------------------------------------------------- refresh tokens

\* The refreshAccessToken calls followed.
MaxRefreshCalls == 2

ErrTokenNotFound == "Refresh token not found"
ErrTokenRevoked == "Refresh token has been revoked"
ErrTokenExpired == "Refresh token has expired"

\* db.createRefreshToken({userId, token, expiresAt}): a row that is neither
\* revoked nor expired; the token is the row's position in the table.
NewRefreshToken(userId) == [userId |-> userId, revoked |-> FALSE, expired |-> FALSE]

\* db.revokeRefreshToken(token): UPDATE ... SET revokedAt WHERE token = token.
revokeRefreshToken(table, token) ==
  [k \in DOMAIN table |-> IF k = token THEN [table[k] EXCEPT !.revoked = TRUE]
                                       ELSE table[k]]

\* The call c at position pc.
SetCall(c, pc) == [refreshCalls EXCEPT ![c] = [@ EXCEPT !.pc = pc]]
\* The call c has thrown e.
CallThrows(c, e) == [refreshCalls EXCEPT ![c] = [@ EXCEPT !.pc = "thrown", !.error = e]]

\* refreshAccessToken(refreshToken) is called; token 0 is a string that was
\* never issued.
RefreshStart(token) ==
  /\ Len(refreshCalls) < MaxRefreshCalls
  /\ refreshCalls' = Append(refreshCalls,
                            [token |-> token, pc |-> "read", issued |-> 0, error |-> ""])
  /\ UNCHANGED <<ingestVars, chatVars, storageFaults, callVars, refreshTokens, crawlVars>>

\* const storedToken = await db.getRefreshToken(refreshToken) and the three
\* checks on it, then db.getUserById.
RefreshRead(c) ==
  /\ refreshCalls[c].pc = "read"
  /\ LET token == refreshCalls[c].token
     IN  \E dbOk \in DbOutcomes :
           refreshCalls' =
             IF ~dbOk \/ token \notin DOMAIN refreshTokens
               THEN CallThrows(c, ErrTokenNotFound)
             ELSE IF refreshTokens[token].revoked THEN CallThrows(c, ErrTokenRevoked)
             ELSE IF refreshTokens[token].expired THEN CallThrows(c, ErrTokenExpired)
             ELSE SetCall(c, "issue")
  /\ UNCHANGED <<ingestVars, chatVars, storageFaults, callVars, refreshTokens, crawlVars>>

\* generateAccessToken, then generateRefreshToken: db.createRefreshToken.
RefreshIssue(c) ==
  /\ refreshCalls[c].pc = "issue"
  /\ \E dbOk \in DbOutcomes :
       IF dbOk
         THEN /\ refreshTokens' =
                   Append(refreshTokens,
                          NewRefreshToken(refreshTokens[refreshCalls[c].token].userId))
              /\ refreshCalls' = [refreshCalls EXCEPT ![c] =
                   [@ EXCEPT !.pc = "revoke", !.issued = Len(refreshTokens) + 1]]
         ELSE /\ refreshTokens' = refreshTokens
              /\ refreshCalls' = CallThrows(c, ErrDatabase)
  /\ UNCHANGED <<ingestVars, chatVars, storageFaults, callVars, crawlVars>>

\* await db.revokeRefreshToken(refreshToken); return the new tokens.
RefreshRevoke(c) ==
  /\ refreshCalls[c].pc = "revoke"
  /\ \E dbOk \in DbOutcomes :
       IF dbOk
         THEN /\ refreshTokens' = revokeRefreshToken(refreshTokens, refreshCalls[c].token)
              /\ refreshCalls' = SetCall(c, "returned")
         ELSE /\ refreshTokens' = refreshTokens
              /\ refreshCalls' = CallThrows(c, ErrDatabase)
  /\ UNCHANGED <<ingestVars, chatVars, storageFaults, callVars, crawlVars>>

\* logoutUser(refreshToken): db.revokeRefreshToken, for a token not yet revoked.
logoutUser(token) ==
  /\ ~refreshTokens[token].revoked
  /\ \E dbOk \in DbOutcomes :
       refreshTokens' = IF dbOk THEN revokeRefreshToken(refreshTokens, token)
                                ELSE refreshTokens
  /\ UNCHANGED <<ingestVars, chatVars, storageFaults, callVars, refreshCalls, crawlVars>>

\* Time passes the token's expiresAt: new Date() > storedToken.expiresAt from now on.
TokenExpires(token) ==
  /\ ~refreshTokens[token].expired
  /\ refreshTokens' = [refreshTokens EXCEPT ![token] = [@ EXCEPT !.expired = TRUE]]
  /\ UNCHANGED <<ingestVars, chatVars, storageFaults, callVars, refreshCalls, crawlVars>>

\* ---------------------------------------------------------- canCrawlDomain

\* resetAt: now + 60000
RateWindowMs == 60000
\* The clock advances in steps of TickMs, MaxTicks times at most; the limits
\* passed as maxPerMinute are 0..MaxPerMinute.
TickMs == 30000
MaxTicks == 4
MaxPerMinute == 2
Domains == {"a.example", "b.example"}

\* map.set(key, value)
MapSet(map, key, value) ==
  [k \in DOMAIN map \cup {key} |-> IF k = key THEN value ELSE map[k]]

\* What canCrawlDomain(domain, maxPerMinute) returns and the map it leaves.
CrawlDecision(domain, maxPerMinute) ==
  IF domain \notin DOMAIN domainCrawlCounts \/ domainCrawlCounts[domain].resetAt < now
    THEN [returns |-> TRUE,
          map |-> MapSet(domainCrawlCounts, domain,
                         [count |-> 1, resetAt |-> now + RateWindowMs])]
  ELSE IF domainCrawlCounts[domain].count < maxPerMinute
    THEN [returns |-> TRUE,
          map |-> [domainCrawlCounts EXCEPT ![domain].count = @ + 1]]
  ELSE [returns |-> FALSE, map |-> domainCrawlCounts]

\* The rate window of the domain as the calls define it: the call that finds
\* no window, or the last one more than RateWindowMs old, opens a window; the
\* calls that returned true in it are counted, and the last call is kept.
WindowAfter(domain, maxPerMinute, returns) ==
  LET granted == IF returns THEN 1 ELSE 0
      opens == \/ domain \notin DOMAIN crawlWindows
               \/ now > crawlWindows[domain].opened + RateWindowMs
  IN  MapSet(crawlWindows, domain,
             [opened |-> IF opens THEN now ELSE crawlWindows[domain].opened,
              granted |-> IF opens THEN granted
                                   ELSE crawlWindows[domain].granted + granted,
              maxPerMinute |-> maxPerMinute,
              returned |-> returns])

\* A call of canCrawlDomain(domain, maxPerMinute).
canCrawlDomain(domain, maxPerMinute) ==
  /\ LET decision == CrawlDecision(domain, maxPerMinute)
     IN  /\ domainCrawlCounts' = decision.map
         /\ crawlWindows' = WindowAfter(domain, maxPerMinute, decision.returns)
  /\ UNCHANGED <<ingestVars, chatVars, storageFaults, callVars, authVars, now>>

\* Time passes.
Tick ==
  /\ now < MaxTicks * TickMs
  /\ now' = now + TickMs
  /\ UNCHANGED <<ingestVars, chatVars, storageFaults, callVars, authVars,
                 domainCrawlCounts, crawlWindows>>

\* ------------------------------------------------- function specifications

\* The database and the queue are empty; no chat turn was made.
EmptyStore ==
  /\ documents = << >>
  /\ documentChunks = << >>
  /\ embeddings = << >>
  /\ jobs = << >>
  /\ usageTracking = << >>
  /\ billingEvents = << >>
  /\ conversations = << >>
  /\ messages = << >>
  /\ turns = << >>

\* No function call is followed; nobody has logged in and nothing was crawled.
NoCalls ==
  /\ embedCall = NoEmbedCall
  /\ chunkCall = NoChunkCall
  /\ textCall = NoTextCall
  /\ refreshTokens = << >>
  /\ refreshCalls = << >>
  /\ domainCrawlCounts = << >>
  /\ crawlWindows = << >>
  /\ now = 0

InitCalls == EmptyStore /\ storageFaults = FALSE /\ NoCalls

NextEmbed ==
  \/ \E chunks \in EmbedInputs : BatchCall(chunks)
  \/ \E k \in 1..MaxTexts : ProviderAnswers(k)

SpecEmbed == InitCalls /\ [][NextEmbed]_vars

NextChunk ==
  \/ \E content \in ChunkTexts, chunkSize \in 1..CHUNK_SIZE, overlap \in 0..MaxOverlap :
       ChunkCall(content, chunkSize, overlap)
  \/ ChunkStep

SpecChunk == InitCalls /\ [][NextChunk]_vars

NextSentence ==
  \E content \in SentenceTexts, targetChunkSize \in 1..CHUNK_SIZE :
    IntelligentChunkCall(content, targetChunkSize)

SpecSentence == InitCalls /\ [][NextSentence]_vars

NextContext ==
  \E chunks \in ContextInputs, maxTokens \in 0..MaxTokenBudget :
    BuildContextCall(chunks, maxTokens)

SpecContext == InitCalls /\ [][NextContext]_vars

\* User 1 has logged in and holds refresh token 1.
InitAuth ==
  /\ EmptyStore
  /\ storageFaults \in BOOLEAN
  /\ embedCall = NoEmbedCall /\ chunkCall = NoChunkCall /\ textCall = NoTextCall
  /\ refreshTokens = <<NewRefreshToken(1)>>
  /\ refreshCalls = << >>
  /\ domainCrawlCounts = << >> /\ crawlWindows = << >> /\ now = 0

NextAuth ==
  \/ \E token \in 0..Len(refreshTokens) : RefreshStart(token)
  \/ \E c \in DOMAIN refreshCalls : RefreshRead(c)
  \/ \E c \in DOMAIN refreshCalls : RefreshIssue(c)
  \/ \E c \in DOMAIN refreshCalls : RefreshRevoke(c)
  \/ \E token \in DOMAIN refreshTokens : logoutUser(token)
  \/ \E token \in DOMAIN refreshTokens : TokenExpires(token)

SpecAuth == InitAuth /\ [][NextAuth]_vars

NextCrawl ==
  \/ \E domain \in Domains, maxPerMinute \in 0..MaxPerMinute :
       canCrawlDomain(domain, maxPerMinute)
  \/ Tick

SpecCrawl == InitCalls /\ [][NextCrawl]_vars

NextSanitize == \E input \in SanitizerInputs : SanitizeCall(input)

SpecSanitize == InitCalls /\ [][NextSanitize]_vars

\* ---------------------------------------------------------- specification

Init == EmptyStore /\ storageFaults = TRUE /\ NoCalls

\* Lists of one or two stored documents.
BatchLists ==
  {<<d>> : d \in DOMAIN documents}
    \cup {<<d, e>> : d \in DOMAIN documents, e \in DOMAIN documents}

Next ==
  \/ \E p \in Projects, c \in Contents : Upload(p, c)
  \/ \E ds \in BatchLists : queueDocumentsInBatch(ds)
  \/ \E j \in DOMAIN jobs : WorkerStart(j)
  \/ \E j \in DOMAIN jobs : MarkProcessing(j)
  \/ \E j \in DOMAIN jobs : CreateChunks(j)
  \/ \E j \in DOMAIN jobs : Embed(j)
  \/ \E j \in DOMAIN jobs : StoreEmbeddings(j)
  \/ \E j \in DOMAIN jobs : MarkCompleted(j)
  \/ \E j \in DOMAIN jobs : Catch(j)

Spec == Init /\ [][Next]_vars

\* ---------------------------------------------------------------- billing

\* getCurrentMonth(): one calendar month lasts longer than any behaviour here.
CurrentMonth == "2026-11"

\* projects.userId: project p is owned by user p, on the free plan.
UserOf(p) == p

\* getPlanLimits('free')
getPlanLimits ==
  [messagesPerModelMini |-> FREE_PLAN_MESSAGES_MINI,
   messagesPerModelPremium |-> FREE_PLAN_MESSAGES_PREMIUM,
   indexedPages |-> FREE_PLAN_INDEXED_PAGES]

\* The usage_tracking rows of (userId, projectId, month): the SELECT of
\* getOrCreateUsageTracking.
UsageRows(userId, projectId, month) ==
  {u \in DOMAIN usageTracking :
     /\ usageTracking[u].userId = userId
     /\ usageTracking[u].projectId = projectId
     /\ usageTracking[u].month = month}

\* The row getOrCreateUsageTracking inserts.
NewUsageRow(userId, projectId, month) ==
  [userId |-> userId, projectId |-> projectId, month |-> month,
   messagesUsedMini |-> 0, messagesUsedPremium |-> 0, indexedPagesUsed |-> 0]

\* The snapshot of row u that a caller of getOrCreateUsageTracking holds.
UsageSnapshot(u) ==
  [id |-> u, messagesUsedMini |-> usageTracking[u].messagesUsedMini,
   messagesUsedPremium |-> usageTracking[u].messagesUsedPremium,
   indexedPagesUsed |-> usageTracking[u].indexedPagesUsed]

NoUsage == [id |-> 0, messagesUsedMini |-> 0, messagesUsedPremium |-> 0,
            indexedPagesUsed |-> 0]

\* The decision of checkUsageLimits on the usage row it read.
LimitsAllow(usage) ==
  LET limits == getPlanLimits
  IN  /\ ~(limits.messagesPerModelMini > 0
            /\ usage.messagesUsedMini >= limits.messagesPerModelMini)
      /\ ~(limits.messagesPerModelPremium > 0
            /\ usage.messagesUsedPremium >= limits.messagesPerModelPremium)
      /\ ~(limits.indexedPages > 0 /\ usage.indexedPagesUsed >= limits.indexedPages)

\* --------------------------------------------------------------- chat turn

SetTurn(t, pc) == [turns EXCEPT ![t] = [@ EXCEPT !.pc = pc]]

\* chat router sendMessage, up to the limit check: getProjectById (a project
\* that is not found ends the turn), then checkUsageLimits begins.
SendMessage(p, model, text, conversationId) ==
  /\ Len(turns) < MaxTurns
  /\ \E dbOk \in DbOutcomes :
       turns' = Append(turns,
         [projectId |-> p, model |-> model, message |-> text,
          conversationId |-> conversationId,
          pc |-> IF dbOk THEN "checkSelect" ELSE "failed",
          usage |-> NoUsage, response |-> "", rejected |-> FALSE,
          searchText |-> << >>, promptQuery |-> << >>,
          search |-> "none", context |-> << >>, error |-> ""])
  /\ UNCHANGED <<ingestVars, usageTracking, billingEvents, conversations, messages,
                 storageFaults, callVars,
                 authVars, crawlVars>>

\* The turn goes on after checkUsageLimits returned for the usage it read.
AfterCheck(t, usage) ==
  IF LimitsAllow(usage)
    THEN [turns EXCEPT ![t] = [@ EXCEPT !.pc = "respond"]]
    ELSE [turns EXCEPT ![t] = [@ EXCEPT !.pc = "failed", !.rejected = TRUE]]

\* checkUsageLimits: the SELECT of getOrCreateUsageTracking.  An error is
\* caught: "Allow on error".
CheckSelect(t) ==
  /\ turns[t].pc = "checkSelect"
  /\ LET rows == UsageRows(UserOf(turns[t].projectId), turns[t].projectId, CurrentMonth)
     IN  \E dbOk \in DbOutcomes :
           IF ~dbOk THEN turns' = SetTurn(t, "respond")
           ELSE IF rows = {} THEN turns' = SetTurn(t, "checkInsert")
           ELSE \E u \in rows : turns' = AfterCheck(t, UsageSnapshot(u))
  /\ UNCHANGED <<ingestVars, usageTracking, billingEvents, conversations, messages,
                 storageFaults, callVars,
                 authVars, crawlVars>>

\* checkUsageLimits: the INSERT of getOrCreateUsageTracking when the SELECT
\* found no row.  The unique index on (userId, projectId, month) rejects a
\* second row; that error, like any, is caught: "Allow on error".
CheckInsert(t) ==
  /\ turns[t].pc = "checkInsert"
  /\ LET userId == UserOf(turns[t].projectId)
         projectId == turns[t].projectId
     IN  \E dbOk \in DbOutcomes :
           IF dbOk /\ UsageRows(userId, projectId, CurrentMonth) = {}
             THEN /\ usageTracking' =
                       Append(usageTracking, NewUsageRow(userId, projectId, CurrentMonth))
                  /\ turns' = AfterCheck(t, NoUsage)
             ELSE /\ usageTracking' = usageTracking
                  /\ turns' = SetTurn(t, "respond")
  /\ UNCHANGED <<ingestVars, billingEvents, conversations, messages, storageFaults, callVars,
                 authVars, crawlVars>>

\* generateRAGResponse: the content of the model's answer, or the fixed text
\* when the answer has no content string.
AnswerText == "answer"
NoAnswerText == "Unable to generate response"

\* The value of a field an object does not have; ids are serial and start at 1.
Undefined == 0

\* chunk.sourceId and the like: the field of the row, undefined when the row
\* has no field of that name.
Field(row, name) == IF name \in DOMAIN row THEN row[name] ELSE Undefined

\* The message row sendMessage records: sourceIds maps every search result
\* to its sourceId.
MessageRow(t, conversation, response, searchResults) ==
  [projectId |-> turns[t].projectId, conversationId |-> conversation,
   role |-> "assistant", content |-> response, model |-> turns[t].model,
   sourceIds |-> [i \in 1..Len(searchResults) |-> Field(searchResults[i], "sourceId")]]

\* const sanitizedMessage = input.message: the text sendMessage hands to
\* vectorSearch and to generateRAGResponse.
sanitizedMessage(t) == turns[t].message

\* What rag.vectorSearch met in a turn: a blank query (it returns [] before
\* any request), a provider and a database that answer, or a failure of
\* generateEmbedding or db.vectorSearch.
SearchCase(query, searchOk) ==
  IF Len(Trim(query)) = 0 THEN "blank" ELSE IF searchOk THEN "ok" ELSE "failed"

\* As SearchThrows, without the catch block of rag.vectorSearch.
SearchRethrows(search) == search = "failed"

\* Whether rag.vectorSearch throws: its catch block logs the error and
\* returns [].
SearchThrows(search) == FALSE

\* The texts of turn t that left the server: the text vectorSearch sent to the
\* embedding provider (none for a blank query), and the question
\* generateRAGResponse put in the prompt, sanitizeUserInput(query).
Sent(t, search) ==
  [turns[t] EXCEPT !.search = search,
                   !.searchText = IF search = "blank" THEN << >> ELSE sanitizedMessage(t),
                   !.promptQuery = sanitizeUserInput(sanitizedMessage(t))]

\* The turn t left at position pc by the error e.
Thrown(t, pc, e) == [turns EXCEPT ![t] = [@ EXCEPT !.pc = pc, !.error = e]]

\* sendMessage from the conversation lookup to createMessage: get or create
\* the conversation, vectorSearch (an error yields no results), buildRAGContext,
\* generateRAGResponse, createMessage.  A turn in which one of them throws
\* goes on at onThrow.
RespondWith(t, onThrow) ==
  /\ turns[t].pc = "respond"
  /\ LET given == turns[t].conversationId
         conversation == IF given # 0 THEN given ELSE Len(conversations) + 1
         created == IF given # 0 THEN conversations
                    ELSE Append(conversations, [projectId |-> turns[t].projectId])
     IN  \E convOk \in DbOutcomes, searchOk \in BOOLEAN,
            llm \in {"content", "nocontent", "throws"}, msgOk \in DbOutcomes :
           LET search == SearchCase(sanitizedMessage(t), searchOk)
               results == IF search = "ok"
                            THEN vectorSearch(turns[t].projectId, sanitizedMessage(t))
                            ELSE {<< >>}
               response == IF llm = "content" THEN AnswerText ELSE NoAnswerText
               sent == Sent(t, search)
           IN  IF ~convOk \/ (given # 0 /\ given \notin DOMAIN conversations)
                 THEN /\ turns' = Thrown(t, onThrow, "conversation")
                      /\ UNCHANGED <<conversations, messages>>
               ELSE IF SearchThrows(search)
                 THEN /\ turns' = [turns EXCEPT ![t] =
                                     [@ EXCEPT !.pc = onThrow, !.error = "search",
                                               !.search = search,
                                               !.searchText = sanitizedMessage(t)]]
                      /\ conversations' = created
                      /\ messages' = messages
               ELSE IF llm = "throws" \/ ~msgOk
                 THEN /\ turns' = [turns EXCEPT ![t] =
                                     [sent EXCEPT !.pc = onThrow,
                                                  !.error = IF llm = "throws"
                                                              THEN "llm" ELSE "createMessage"]]
                      /\ conversations' = created
                      /\ messages' = messages
               ELSE \E r \in results :
                      LET context == buildRAGContext(r, MAX_CONTEXT_TOKENS)
                      IN  /\ conversations' = created
                          /\ messages' = Append(messages,
                                                MessageRow(t, conversation, response, r))
                          /\ turns' = [turns EXCEPT ![t] =
                                         [sent EXCEPT !.pc = "trackSelect",
                                                      !.response = response,
                                                      !.context = context.chunks]]
  /\ UNCHANGED <<ingestVars, usageTracking, billingEvents, storageFaults, callVars,
                 authVars, crawlVars>>

\* As Respond, with the usage tracked also for a turn that threw.
RespondTrackingFailures(t) == RespondWith(t, "trackSelect")

\* In sendMessage every throw leaves the try block: the turn fails.
Respond(t) == RespondWith(t, "failed")

\* As TrackingFailed, without the catch block of trackMessageUsage.
TrackingRethrown(t) == Thrown(t, "failed", "tracking")

\* The catch block of trackMessageUsage: the error is logged and the call
\* returns; sendMessage then returns its result.
TrackingFailed(t) == Thrown(t, "done", "tracking")

\* trackMessageUsage: the SELECT of getOrCreateUsageTracking.  Every error in
\* trackMessageUsage is caught and logged; the turn then returns.
TrackSelect(t) ==
  /\ turns[t].pc = "trackSelect"
  /\ LET rows == UsageRows(UserOf(turns[t].projectId), turns[t].projectId, CurrentMonth)
     IN  \E dbOk \in DbOutcomes :
           IF ~dbOk THEN turns' = TrackingFailed(t)
           ELSE IF rows = {} THEN turns' = SetTurn(t, "trackInsert")
           ELSE \E u \in rows :
                  turns' = [turns EXCEPT ![t] =
                              [@ EXCEPT !.pc = "trackUpdate", !.usage = UsageSnapshot(u)]]
  /\ UNCHANGED <<ingestVars, usageTracking, billingEvents, conversations, messages,
                 storageFaults, callVars,
                 authVars, crawlVars>>

\* trackMessageUsage: the INSERT of getOrCreateUsageTracking.
TrackInsert(t) ==
  /\ turns[t].pc = "trackInsert"
  /\ LET userId == UserOf(turns[t].projectId)
         projectId == turns[t].projectId
     IN  \E dbOk \in DbOutcomes :
           IF dbOk /\ UsageRows(userId, projectId, CurrentMonth) = {}
             THEN /\ usageTracking' =
                       Append(usageTracking, NewUsageRow(userId, projectId, CurrentMonth))
                  /\ turns' = [turns EXCEPT ![t] =
                       [@ EXCEPT !.pc = "trackUpdate",
                                 !.usage = [NoUsage EXCEPT !.id = Len(usageTracking) + 1]]]
             ELSE /\ usageTracking' = usageTracking
                  /\ turns' = TrackingFailed(t)
  /\ UNCHANGED <<ingestVars, billingEvents, conversations, messages, storageFaults, callVars,
                 authVars, crawlVars>>

\* trackMessageUsage: updates.messagesUsedMini = (usage.messagesUsedMini || 0) + 1
\* (or the premium counter), computed from the row as it was read, then
\* db.updateUsageTracking(usage.id, updates).
TrackUpdate(t) ==
  /\ turns[t].pc = "trackUpdate"
  /\ \E dbOk \in DbOutcomes :
       IF dbOk
         THEN /\ usageTracking' =
                   [usageTracking EXCEPT ![turns[t].usage.id] =
                      IF turns[t].model = "mini"
                        THEN [@ EXCEPT !.messagesUsedMini = turns[t].usage.messagesUsedMini + 1]
                        ELSE [@ EXCEPT !.messagesUsedPremium =
                                          turns[t].usage.messagesUsedPremium + 1]]
              /\ turns' = SetTurn(t, "trackEvent")
         ELSE /\ usageTracking' = usageTracking
              /\ turns' = TrackingFailed(t)
  /\ UNCHANGED <<ingestVars, billingEvents, conversations, messages, storageFaults, callVars,
                 authVars, crawlVars>>

\* trackMessageUsage: db.createBillingEvent({type: 'message', ...}); then
\* sendMessage returns its result.
TrackEvent(t) ==
  /\ turns[t].pc = "trackEvent"
  /\ \E dbOk \in DbOutcomes :
       IF dbOk
         THEN /\ billingEvents' = Append(billingEvents,
                   [userId |-> UserOf(turns[t].projectId), projectId |-> turns[t].projectId,
                    type |-> "message", model |-> turns[t].model, quantity |-> 1])
              /\ turns' = SetTurn(t, "done")
         ELSE /\ billingEvents' = billingEvents
              /\ turns' = TrackingFailed(t)
  /\ UNCHANGED <<ingestVars, usageTracking, conversations, messages, storageFaults, callVars,
                 authVars, crawlVars>>

\* The index the chat turns search: one completed document in each project,
\* as two successful ingestion runs leave it.
IndexedDocuments ==
  [d \in 1..2 |-> [projectId |-> d, content |-> TwoSentences, status |-> "completed",
                   errorMessage |-> ""]]
IndexedChunks ==
  [c \in 1..4 |->
     LET d == (c + 1) \div 2
         i == (c + 1) % 2
     IN  [documentId |-> d, projectId |-> d,
          content |-> intelligentChunk(TwoSentences, CHUNK_SIZE)[i + 1],
          chunkIndex |-> i,
          tokenCount |-> estimateTokens(intelligentChunk(TwoSentences, CHUNK_SIZE)[i + 1])]]
IndexedEmbeddings ==
  [e \in 1..4 |->
     [chunkId |-> e, documentId |-> IndexedChunks[e].documentId,
      projectId |-> IndexedChunks[e].projectId,
      vector |-> EmbeddingOf(IndexedChunks[e].content), model |-> EMBEDDING_MODEL]]
IndexedJobs ==
  [j \in 1..2 |-> [NewJob(j, j, TwoSentences) EXCEPT !.state = "completed"]]

InitChat ==
  /\ documents = IndexedDocuments
  /\ documentChunks = IndexedChunks
  /\ embeddings = IndexedEmbeddings
  /\ jobs = IndexedJobs
  /\ usageTracking = << >>
  /\ billingEvents = << >>
  /\ conversations = << >>
  /\ messages = << >>
  /\ turns = << >>
  /\ storageFaults \in BOOLEAN
  /\ NoCalls

NextChat ==
  \/ \E p \in ChatProjects, model \in Models, text \in ChatMessages,
        conversationId \in ConversationIds :
       SendMessage(p, model, text, conversationId)
  \/ \E t \in DOMAIN turns : CheckSelect(t)
  \/ \E t \in DOMAIN turns : CheckInsert(t)
  \/ \E t \in DOMAIN turns : Respond(t)
  \/ \E t \in DOMAIN turns : TrackSelect(t)
  \/ \E t \in DOMAIN turns : TrackInsert(t)
  \/ \E t \in DOMAIN turns : TrackUpdate(t)
  \/ \E t \in DOMAIN turns : TrackEvent(t)

SpecChat == InitChat /\ [][NextChat]_vars

\* ------------------------------------------------------- ingestion claims

DocChunks(d) == {c \in DOMAIN documentChunks : documentChunks[c].documentId = d}
ChunkEmbeddings(c) == {e \in DOMAIN embeddings : embeddings[e].chunkId = c}

AllowedEdges == {<<"pending", "processing">>, <<"processing", "completed">>,
                 <<"processing", "failed">>}

\* The step starts the first attempt of a job that was queued for a document
\* which already had a job: an explicit re-submission of d.
StartsResubmitted(d) ==
  \E j \in DOMAIN jobs :
    /\ jobs[j].documentId = d /\ jobs[j].attemptsMade = 0
    /\ \E i \in 1..(j - 1) : jobs[i].documentId = d
    /\ jobs[j].pc = "markProcessing" /\ jobs'[j].pc = "createChunks"

\* C1: a document's status changes only along pending->processing,
\* processing->completed and processing->failed; a completed or failed
\* document leaves that state only by the run of an explicit re-submission,
\* never by the worker's automatic attempts.
C1_StatusTransitions ==
  [][\A d \in DOMAIN documents :
       documents'[d].status # documents[d].status =>
         \/ <<documents[d].status, documents'[d].status>> \in AllowedEdges
         \/ /\ documents[d].status \in {"completed", "failed"}
            /\ documents'[d].status = "processing"
            /\ StartsResubmitted(d)]_vars

\* C2: every row a similarity search returns, for any project and query,
\* belongs to a document whose status is completed.
C2_SearchOnlyCompleted ==
  \A p \in Projects, q \in Queries :
    \A r \in vectorSearch(p, q) :
      \A i \in 1..Len(r) : documents[r[i].documentId].status = "completed"

\* C4: tenant isolation.  Every row of every search scoped to project p, and
\* every chunk of the context built from it, has its embedding, its chunk and
\* its document in project p.
RowInProject(row, p) ==
  /\ embeddings[row.id].projectId = p
  /\ documentChunks[row.chunkId].projectId = p
  /\ documents[row.documentId].projectId = p

C5_CompletedFullyEmbedded ==
  \A d \in DOMAIN documents :
    documents[d].status = "completed" =>
      \A c \in DocChunks(d) :
        /\ Cardinality(ChunkEmbeddings(c)) = 1
        /\ \A e \in ChunkEmbeddings(c) :
             /\ embeddings[e].model = EMBEDDING_MODEL
             /\ embeddings[e].vector = EmbeddingOf(documentChunks[c].content)
             /\ embeddings[e].documentId = d

\* C6: the chunks stored for a document carry the indices 0..n-1, each once.
C6_ChunkIndicesGapless ==
  \A d \in DOMAIN documents :
    \A k \in 0..(Cardinality(DocChunks(d)) - 1) :
      Cardinality({c \in DocChunks(d) : documentChunks[c].chunkIndex = k}) = 1

\* C7: when a run ends by an error, the document is failed with a non-empty
\* error message and the error that made the run fail is the one re-raised.
C7_FailureRecorded ==
  [][\A j \in DOMAIN jobs :
       (jobs[j].pc = "catch" /\ jobs'[j].pc # "catch") =>
         /\ documents'[jobs[j].documentId].status = "failed"
         /\ documents'[jobs[j].documentId].errorMessage # ""
         /\ jobs'[j].failedReason = jobs[j].error]_vars

\* C10: at most one processDocument run is active per document.
C10_SingleFlight ==
  \A d \in DOMAIN documents :
    Cardinality({j \in ActiveJobs : jobs[j].documentId = d}) <= 1

\* ------------------------------------------------------------ chat claims

TurnsReturned == \A t \in DOMAIN turns : turns[t].pc \in {"done", "failed"}

\* The turns of project p and the given model that called trackMessageUsage.
TrackCalls(p, model) ==
  {t \in DOMAIN turns :
     /\ turns[t].projectId = p /\ turns[t].model = model
     /\ turns[t].pc \in {"trackSelect", "trackInsert", "trackUpdate", "trackEvent", "done"}}

\* The counter of the given model in the usage of project p this month.
UsedMessages(p, model) ==
  LET rows == UsageRows(UserOf(p), p, CurrentMonth)
  IN  IF rows = {} THEN 0
      ELSE LET u == CHOOSE x \in rows : TRUE
           IN  IF model = "mini" THEN usageTracking[u].messagesUsedMini
                                 ELSE usageTracking[u].messagesUsedPremium

RecordedMessages(p, model) ==
  {m \in DOMAIN messages : messages[m].projectId = p /\ messages[m].model = model}

MessageEvents(p, model) ==
  {b \in DOMAIN billingEvents :
     /\ billingEvents[b].projectId = p /\ billingEvents[b].model = model
     /\ billingEvents[b].type = "message"}

\* C3: with a database that never fails, once all calls have returned the
\* mini and premium counters equal the number of trackMessageUsage calls
\* made for each model.
C3_NoLostUpdates ==
  (~storageFaults /\ TurnsReturned) =>
    \A p \in ChatProjects, model \in Models :
      UsedMessages(p, model) = Cardinality(TrackCalls(p, model))

\* C8: usage is reported only after the response of the turn was produced and
\* recorded: per project and model, neither the usage counter nor the billing
\* events ever exceed the responses recorded, whatever turns have failed.
C8_UsageAfterResponse ==
  \A p \in ChatProjects, model \in Models :
    /\ UsedMessages(p, model) <= Cardinality(RecordedMessages(p, model))
    /\ Cardinality(MessageEvents(p, model)) <= Cardinality(RecordedMessages(p, model))
    /\ Cardinality(TrackCalls(p, model)) <= Cardinality(RecordedMessages(p, model))

\* C8 witness: one turn failed after its conversation was created (at the
\* answer generation or the message recording), another was answered and
\* billed.
C8_Witness ==
  /\ \E t \in DOMAIN turns : turns[t].pc = "failed" /\ ~turns[t].rejected
  /\ Len(conversations) > Len(messages)
  /\ Len(billingEvents) >= 1
  /\ \E p \in ChatProjects, model \in Models : UsedMessages(p, model) >= 1

\* C9: with a database that never fails, under every interleaving of chat
\* turns no message counter exceeds the plan's positive monthly limit.
C9_HardLimit ==
  ~storageFaults =>
    \A u \in DOMAIN usageTracking :
      /\ getPlanLimits.messagesPerModelMini > 0 =>
           usageTracking[u].messagesUsedMini <= getPlanLimits.messagesPerModelMini
      /\ getPlanLimits.messagesPerModelPremium > 0 =>
           usageTracking[u].messagesUsedPremium <= getPlanLimits.messagesPerModelPremium

\* -------------------------------------------------- embedding batch claims

\* C11: whenever generateEmbeddingsBatch returns, it returns one vector per
\* input text and vector i is the embedding of text i, in every order in
\* which the provider's answers arrive.
C11_BatchPreservesOrder ==
  embedCall.pc = "returned" =>
    /\ Len(embedCall.result) = Len(embedCall.chunks)
    /\ \A k \in 1..Len(embedCall.chunks) :
         embedCall.result[k] = EmbeddingOf(embedCall.chunks[k])

\* C11 witness: a call with more texts than one sub-batch holds has returned.
C11_Witness ==
  /\ embedCall.pc = "returned"
  /\ Len(embedCall.chunks) > batchSize
  /\ Len(embedCall.result) = Len(embedCall.chunks)

\* The last text of the sub-batch that starts after text i.
SubBatchEnd(i) ==
  IF i + batchSize < Len(embedCall.chunks) THEN i + batchSize ELSE Len(embedCall.chunks)

\* The texts for which a request was made or refused so far.
Requested == embedCall.inFlight \cup embedCall.fulfilled \cup embedCall.rejected

\* C12: once a request of a sub-batch has failed the call has thrown, with
\* the error of that failure, it delivers no vector, and no text of a later
\* sub-batch is ever requested.
C12_BatchFailsWhole ==
  /\ embedCall.rejected # {} => embedCall.pc = "thrown"
  /\ embedCall.pc = "thrown" =>
       /\ embedCall.rejected # {}
       /\ embedCall.result = << >>
       /\ embedCall.error =
            IF \E k \in embedCall.rejected : IsBlank(embedCall.chunks[k])
              THEN ErrEmptyText ELSE ErrProvider
       /\ Requested \subseteq 1..SubBatchEnd(embedCall.i)

\* C12 witness: a request of the first sub-batch failed at the provider while
\* texts of a second sub-batch were still to come, and every other request of
\* the first sub-batch has been answered since.
C12_Witness ==
  /\ embedCall.pc = "thrown" /\ embedCall.error = ErrProvider
  /\ embedCall.i = 0 /\ Len(embedCall.chunks) > batchSize
  /\ embedCall.inFlight = {} /\ embedCall.fulfilled # {}

\* C13: the sub-batches are the consecutive groups of batchSize texts (the
\* last one may be shorter), issued one after the other: the requests in
\* flight all belong to the current sub-batch, every text before it has been
\* answered, and a call that returns has gone through ceil(len/batchSize)
\* sub-batches.
C13_SequentialSubBatches ==
  /\ embedCall.i % batchSize = 0
  /\ Cardinality(embedCall.inFlight) <= batchSize
  /\ embedCall.inFlight \subseteq (embedCall.i + 1)..SubBatchEnd(embedCall.i)
  /\ embedCall.pc \in {"await", "thrown"} =>
       /\ Requested = 1..SubBatchEnd(embedCall.i)
       /\ 1..embedCall.i \subseteq embedCall.fulfilled
  /\ embedCall.pc = "returned" =>
       /\ embedCall.fulfilled = 1..Len(embedCall.chunks)
       /\ embedCall.i = batchSize * ((Len(embedCall.chunks) + batchSize - 1) \div batchSize)

\* C13 witness: the requests of the second sub-batch are in flight.
C13_Witness ==
  /\ embedCall.pc = "await"
  /\ embedCall.i = batchSize
  /\ embedCall.inFlight # {}

\* ------------------------------------------------------ chunkDocument claims

\* C14: every call of chunkDocument returns.  A pass of the loop computes the
\* next start from the current one alone, so the call returns exactly when
\* every pass that stays in the loop moves the window forward.
C14_ChunkDocumentTerminates ==
  [][(chunkCall.pc = "loop" /\ chunkCall'.pc = "loop") =>
       chunkCall'.start > chunkCall.start]_vars

\* The characters of s that are not whitespace, in order.
NonWhitespace(s) == SelectSeq(s, LAMBDA c : ~IsWhitespace(c))

RECURSIVE Concat(_)
Concat(seqs) == IF seqs = << >> THEN << >> ELSE Head(seqs) \o Concat(Tail(seqs))

\* Whether s can be read in t from left to right, skipping characters of t.
RECURSIVE IsSubsequence(_, _)
IsSubsequence(s, t) ==
  IF s = << >> THEN TRUE
  ELSE IF t = << >> THEN FALSE
  ELSE IF Head(s) = Head(t) THEN IsSubsequence(Tail(s), Tail(t))
  ELSE IsSubsequence(s, Tail(t))

\* C15: with the default overlap, the chunks a call returns for a non-empty
\* text contain, in order, every character of the text that is not
\* whitespace, and no chunk is longer than the chunk size.
C15_ChunksCoverText ==
  (chunkCall.pc = "returned" /\ chunkCall.overlap = CHUNK_OVERLAP
     /\ Len(chunkCall.content) > 0) =>
    /\ IsSubsequence(NonWhitespace(chunkCall.content),
                     NonWhitespace(Concat(chunkCall.result)))
    /\ \A k \in 1..Len(chunkCall.result) :
         Len(chunkCall.result[k]) <= chunkCall.chunkSize

\* ---------------------------------------------------- pure function claims

\* The sentences joined by single spaces.
RECURSIVE JoinSentences(_)
JoinSentences(sentences) ==
  IF Len(sentences) = 1 THEN sentences[1]
  ELSE sentences[1] \o <<" ">> \o JoinSentences(Tail(sentences))

\* Whether the chunks are the sentences, in order, cut into consecutive
\* groups, each group joined by spaces and either at most target characters
\* long or a single sentence.
RECURSIVE Grouped(_, _, _)
Grouped(chunks, sentences, target) ==
  IF chunks = << >> THEN sentences = << >>
  ELSE \E k \in 1..Len(sentences) :
         /\ JoinSentences(SubSeq(sentences, 1, k)) = Head(chunks)
         /\ (Len(Head(chunks)) <= target \/ k = 1)
         /\ Grouped(Tail(chunks), SubSeq(sentences, k + 1, Len(sentences)), target)

\* C16: intelligentChunk returns the sentences of the text in order, whole,
\* grouped into chunks of at most targetSize characters unless the chunk is
\* one sentence; the empty text gives no chunk.
C16_SentenceChunks ==
  textCall.fn = "intelligentChunk" =>
    /\ Grouped(textCall.output, splitBySentences(textCall.input), textCall.size)
    /\ textCall.input = << >> => textCall.output = << >>

\* C16 witness: a call returned several chunks, one of them a sentence longer
\* than the target size, another within it.
C16_Witness ==
  /\ textCall.fn = "intelligentChunk"
  /\ \E k \in 1..Len(textCall.output) : Len(textCall.output[k]) > textCall.size
  /\ \E k \in 1..Len(textCall.output) : Len(textCall.output[k]) <= textCall.size

\* Whether s holds a region that begins with open and ends with a close
\* behind it.
ContainsRegion(s, open, close) ==
  \E i \in 1..Len(s) :
    /\ StartsAt(s, i, open)
    /\ \E q \in (i + Len(open))..Len(s) : StartsAt(s, q, close)

\* C17: sanitizeUserInput is idempotent: applied to its own output it returns
\* that output unchanged.
C17_SanitizeIdempotent ==
  textCall.fn = "sanitizeUserInput" =>
    sanitizeUserInput(textCall.output) = textCall.output

\* C18: the text sanitizeUserInput returns holds no fenced code block, no
\* {{...}} region and no ${...} region.
C18_NoPatternRemains ==
  textCall.fn = "sanitizeUserInput" =>
    /\ ~ContainsRegion(textCall.output, Fence, Fence)
    /\ ~ContainsRegion(textCall.output, <<"{", "{">>, <<"}", "}">>)
    /\ ~ContainsRegion(textCall.output, <<"$", "{">>, <<"}">>)

\* ------------------------------------------------------- sanitizer coverage

\* The texts of a sequence of texts.
Texts(seq) == {seq[i] : i \in DOMAIN seq}

\* C19: every chunk text stored and embedded by ingestion has passed through
\* sanitizeUserInput (as a chunk of the sanitized document, or as a sanitized
\* chunk of the document), and the text a chat turn embeds for the search and
\* the question it puts in the prompt are the sanitized message.
C19_SanitizedBeforeUse ==
  /\ \A c \in DOMAIN documentChunks :
       LET content == documents[documentChunks[c].documentId].content
       IN  documentChunks[c].content \in
             Texts(intelligentChunk(sanitizeUserInput(content), CHUNK_SIZE))
               \cup {sanitizeUserInput(chunk) :
                       chunk \in Texts(intelligentChunk(content, CHUNK_SIZE))}
  /\ \A t \in DOMAIN turns :
       /\ turns[t].searchText \in {<< >>, sanitizeUserInput(turns[t].message)}
       /\ turns[t].promptQuery \in {<< >>, sanitizeUserInput(turns[t].message)}

\* ------------------------------------------------------- similarity search

\* C20: a search for project p returns the VECTOR_SEARCH_TOP_K most similar of
\* the project's embeddings whose similarity to the query is at least
\* VECTOR_SIMILARITY_THRESHOLD: no more than that many rows, none below the
\* threshold, and no embedding at or above the threshold left out while the
\* result has room or holds a less similar row.
C20_ThresholdIsMinimum ==
  \A p \in Projects, q \in Queries :
    \A r \in vectorSearch(p, q) :
      LET sim(e) == Similarity(embeddings[e].vector, EmbeddingOf(q))
          eligible == {e \in DOMAIN embeddings :
                         /\ embeddings[e].projectId = p
                         /\ sim(e) >= VECTOR_SIMILARITY_THRESHOLD}
          returned == {r[i].id : i \in 1..Len(r)}
      IN  /\ Len(r) <= VECTOR_SEARCH_TOP_K
          /\ Cardinality(returned) = Len(r)
          /\ returned \subseteq eligible
          /\ \A e \in eligible \ returned :
               /\ Len(r) = VECTOR_SEARCH_TOP_K
               /\ \A x \in returned : sim(e) <= sim(x)

\* C21: the rows of a search come in descending similarity, rows of equal
\* similarity with the chunk created last first, so that the index, the
\* project and the query fix the list returned.
C21_DeterministicOrder ==
  \A p \in Projects, q \in Queries :
    /\ Cardinality(vectorSearch(p, q)) = 1
    /\ \A r \in vectorSearch(p, q) :
         \A i, j \in 1..Len(r) :
           i < j => \/ r[i].similarity > r[j].similarity
                    \/ /\ r[i].similarity = r[j].similarity
                       /\ r[i].chunkId > r[j].chunkId

\* ------------------------------------------------------- fail-soft search

\* Turns that got past generateRAGResponse and createMessage.
Answered(t) == turns[t].pc \in {"trackSelect", "trackInsert", "trackUpdate", "trackEvent", "done"}

\* C22: rag.vectorSearch returns the empty list for a blank query and for a
\* project without embeddings (project 0 has none); a blank query sends
\* nothing to the embedding provider; no turn is failed by its search, and a
\* turn whose search failed or was blank is answered with an empty context.
C22_SearchFailSoft ==
  /\ \A p \in Projects \cup {0} : vectorSearch(p, BlankContent) = {<< >>}
  /\ \A q \in Queries : vectorSearch(0, q) = {<< >>}
  /\ \A t \in DOMAIN turns :
       /\ turns[t].error # "search"
       /\ turns[t].search = "blank" => turns[t].searchText = << >>
       /\ turns[t].search \in {"blank", "failed"} /\ Answered(t) =>
            /\ turns[t].context = << >>
            /\ turns[t].response \in {AnswerText, NoAnswerText}

\* C22 witness: a turn whose search failed was answered by the model and has
\* returned, and another turn with a blank message was answered.
C22_Witness ==
  /\ \E t \in DOMAIN turns :
       /\ turns[t].search = "failed"
       /\ turns[t].pc = "done"
       /\ turns[t].response = AnswerText
  /\ \E t \in DOMAIN turns : turns[t].search = "blank" /\ Answered(t)

\* ---------------------------------------------------------- context budget

\* The token estimates of the rows, summed.
RECURSIVE SumTokens(_)
SumTokens(rows) ==
  IF rows = << >> THEN 0 ELSE estimateTokens(Head(rows).content) + SumTokens(Tail(rows))

C24_SourcesAreContextDocuments ==
  [][\A t \in DOMAIN turns :
       turns[t].pc = "respond" /\ turns'[t].pc = "trackSelect" =>
         /\ Len(messages') = Len(messages) + 1
         /\ messages'[Len(messages')].sourceIds =
              [i \in 1..Len(turns'[t].context) |-> turns'[t].context[i].documentId]]_vars

\* ------------------------------------------------------ indexed-page usage

\* C25: once a run has set a document completed, the usage row of the
\* document's user, project and month exists and counts indexed pages.
C25_IndexedPagesCounted ==
  \A d \in DOMAIN documents :
    documents[d].status = "completed" =>
      \E u \in UsageRows(UserOf(documents[d].projectId), documents[d].projectId,
                         CurrentMonth) :
        usageTracking[u].indexedPagesUsed > 0

\* ----------------------------------------------------- metering failures

\* C26: a turn in which trackMessageUsage met an error has returned its
\* response all the same: it is done, not failed, and the answer it
\* returns is recorded as a message of its project.
C26_TrackingNeverFailsTurn ==
  \A t \in DOMAIN turns :
    turns[t].error = "tracking" =>
      /\ turns[t].pc = "done"
      /\ turns[t].response \in {AnswerText, NoAnswerText}
      /\ \E k \in DOMAIN messages :
           /\ messages[k].content = turns[t].response
           /\ messages[k].projectId = turns[t].projectId

\* C26 witness: a turn is done with the model's answer although its usage
\* row could not be read, so that nothing was counted.
C26_Witness ==
  \E t \in DOMAIN turns :
    /\ turns[t].error = "tracking"
    /\ turns[t].pc = "done"
    /\ turns[t].response = AnswerText
    /\ usageTracking = << >>

\* ------------------------------------------------------ token rotation

\* The calls of refreshAccessToken with the token that have returned new tokens.
Refreshed(token) ==
  {c \in DOMAIN refreshCalls :
     refreshCalls[c].token = token /\ refreshCalls[c].pc = "returned"}

\* C27: no refresh token has yielded more than one successful
\* refreshAccessToken, and a token that yielded one is revoked.
C27_RefreshTokenUsedOnce ==
  \A token \in DOMAIN refreshTokens :
    /\ Cardinality(Refreshed(token)) <= 1
    /\ Refreshed(token) # {} => refreshTokens[token].revoked

\* ---------------------------------------------------------- end of a run

\* C28: when a processDocument run returns or throws, its document is
\* completed or failed, not processing.
C28_RunEndsCompletedOrFailed ==
  [][\A j \in DOMAIN jobs :
       (jobs[j].state = "active" /\ jobs'[j].state # "active") =>
         documents'[jobs[j].documentId].status \in {"completed", "failed"}]_vars

\* ------------------------------------------------------------ crawl rate

\* C29: in the rate window of every domain, a call that returned true is
\* within the limit it was given, counted over the calls of that domain that
\* returned true in the window; the map's window is the one that began with
\* the call that opened it, and its counter holds the calls of that domain only.
C29_CrawlRateLimit ==
  \A d \in DOMAIN crawlWindows :
    /\ crawlWindows[d].returned => crawlWindows[d].granted <= crawlWindows[d].maxPerMinute
    /\ domainCrawlCounts[d].resetAt = crawlWindows[d].opened + RateWindowMs
    /\ domainCrawlCounts[d].count = crawlWindows[d].granted

\* ------------------------------------------------- conversation ownership

\* C30: every message is stored in a conversation of its own project.
C30_MessageInOwnConversation ==
  \A k \in DOMAIN messages :
    conversations[messages[k].conversationId].projectId = messages[k].projectId

====
